---- MODULE Spec2Model ----
(***************************************************************************)
(* Client-side token-lifecycle coordinator of the auth context module      *)
(* (AuthProvider): the token store (localStorage), the session state, the  *)
(* axios request/response interceptors, refreshAuthToken, the bootstrap    *)
(* effect and login / register / logout.                                   *)
(*                                                                         *)
(* Execution model: a single-threaded event loop.  One action is one       *)
(* macrotask (an effect run, a call of login/register/logout, the arrival  *)
(* of a network response) run up to its next await on something pending.   *)
(* Continuations of an await on a settled promise are microtasks: they are *)
(* the Resume actions, and no macrotask runs while one of them is pending. *)
(* The remote service is an external collaborator: each request in flight  *)
(* is answered with success, an error status or a network error.           *)
(***************************************************************************)
EXTENDS Integers, Sequences, FiniteSets, Bags, TLC

\* ---------------------------------------------------------------- bounds
\* calls of login / register / logout made by the application
MaxOps == 1
\* refreshAuthToken calls that reach the network (promise slots)
MaxRefresh == 3
\* token pairs the remote service issues (the pair of an earlier session apart)
MaxTok == 2

\* ---------------------------------------------------------------- values
Boot == 0
Ops == 1..MaxOps
Promises == 1..MaxRefresh
NoPromise == 0
\* the task that owns the GET /auth/refresh of refresh cycle p
RfOwner(p) == MaxOps + p
RfOwners == {RfOwner(p) : p \in Promises}
Owners == {Boot} \cup Ops \cup RfOwners
CycleOf(o) == o - MaxOps

Null == [t |-> "null", n |-> 0]
AT(k) == [t |-> "access", n |-> k]
RT(k) == [t |-> "refresh", n |-> k]
\* AuthTokens, lines 11-14
TokenPair(k) == [accessToken |-> AT(k), refreshToken |-> RT(k)]
\* the pair a previous session may have left in localStorage
OldPair == 0
EmptyStore == [accessToken |-> Null, refreshToken |-> Null]

NoUser == "null"
UserData == "user"

\* error.response?.status; NetErr: no response was received
NetErr == 0
Ok == 200
Unauthorized == 401
Forbidden == 403
NotFound == 404
TooMany == 429
ServerError == 500
Failures == {NetErr, Unauthorized, Forbidden, NotFound, TooMany, ServerError}

IdleReq == [st |-> "idle", ep |-> "none", bearer |-> Null, retry |-> FALSE,
            cap |-> [isRefreshing |-> FALSE, refreshPromise |-> NoPromise],
            wait |-> NoPromise, sends |-> 0, cycles |-> 0, out |-> "none",
            last |-> {}]
UnusedPromise == [st |-> "unused", val |-> Null, by |-> Boot, direct |-> FALSE,
                  resp |-> "none"]

VARIABLES
  localStorage,    \* the two entries accessToken / refreshToken
  user,            \* useState<User | null>
  isLoading,       \* useState(true)
  isAuthenticated, \* useState(false)
  isRefreshing,    \* useState(false)
  refreshPromise,  \* useState<Promise | null>
  rendered,        \* the values of isRefreshing / refreshPromise in the last
                   \* render of the provider (what its effect callback closes over)
  effectPending,   \* that render's interceptor effect has not run yet
  hook,            \* the values of isRefreshing / refreshPromise closed over by
                   \* the interceptors registered by the last run of the effect
  req,             \* per task: its request to the transport (sends, cycles, out
                   \* and last are history: times sent, refresh cycles its
                   \* failure started, how it settled, last status received)
  pc,              \* position of the bootstrap effect and of each operation call
  kind,            \* which operation each call is
  rp,              \* the promises returned by refreshAuthToken
  toasts,          \* notifications emitted so far: a bag of <<title, task>>
  nextTok,         \* next token pair the remote service issues
  solo,            \* history: the call has run with no other task in flight
  userAtCall,      \* history: the value of user when the call was made
  issued           \* history: the pair the call's login/register request returned

vars == <<localStorage, user, isLoading, isAuthenticated, isRefreshing,
          refreshPromise, rendered, effectPending, hook, req, pc, kind, rp, toasts,
          nextTok, solo, userAtCall, issued>>

\* The mutable state as one record, threaded through the handlers' steps.
Cur == [localStorage |-> localStorage, user |-> user, isLoading |-> isLoading,
        isAuthenticated |-> isAuthenticated, isRefreshing |-> isRefreshing,
        refreshPromise |-> refreshPromise, req |-> req, pc |-> pc, rp |-> rp,
        toasts |-> toasts, issued |-> issued]

Apply(S) ==
  /\ localStorage' = S.localStorage
  /\ user' = S.user
  /\ isLoading' = S.isLoading
  /\ isAuthenticated' = S.isAuthenticated
  /\ isRefreshing' = S.isRefreshing
  /\ refreshPromise' = S.refreshPromise
  /\ req' = S.req
  /\ pc' = S.pc
  /\ rp' = S.rp
  /\ toasts' = S.toasts
  /\ issued' = S.issued

\* ------------------------------------------------------------ primitives
\* toast.error / toast.success
Toast(S, title, o) == [S EXCEPT !.toasts = @ (+) SetToBag({<<title, o>>})]

\* a storeTokens that writes the access token only
storeTokens_AccessOnly(S, tokens) ==
  [S EXCEPT !.localStorage.accessToken = tokens.accessToken]

\* storeTokens, lines 82-85
storeTokens(S, tokens) ==
  [S EXCEPT !.localStorage = [accessToken |-> tokens.accessToken,
                              refreshToken |-> tokens.refreshToken]]

\* a clearAuthData without its setIsAuthenticated(false)
clearAuthData_KeepFlag(S) ==
  [S EXCEPT !.localStorage = EmptyStore, !.user = NoUser]

\* clearAuthData, lines 87-92
clearAuthData(S) ==
  [S EXCEPT !.localStorage = EmptyStore,
            !.user = NoUser,
            !.isAuthenticated = FALSE]

\* requestInterceptor, lines 119-126: the Authorization header after the
\* pre-send hook has run on a request built with header `given`
requestInterceptor(S, given) ==
  IF S.localStorage.accessToken # Null THEN S.localStorage.accessToken ELSE given

\* api.get / api.post: the request passes the request interceptor and leaves
\* with the response handler that is registered now (axios builds the
\* handler chain of a request when the request is made)
Send(S, o, ep, given) ==
  [S EXCEPT !.req[o] = [st |-> "sent", ep |-> ep,
                        bearer |-> requestInterceptor(S, given),
                        retry |-> FALSE, cap |-> hook, wait |-> NoPromise,
                        sends |-> 1, cycles |-> 0, out |-> S.req[o].out,
                        last |-> S.req[o].last]]

\* a resend that leaves the request's Authorization header as it was sent
Resend_StaleHeader(S, o, newToken) ==
  [S EXCEPT !.req[o].st = "sent",
            !.req[o].cap = hook,
            !.req[o].wait = NoPromise,
            !.req[o].sends = @ + 1]

\* api(originalRequest), lines 172 and 188
Resend(S, o, newToken) ==
  [S EXCEPT !.req[o].st = "sent",
            !.req[o].bearer = requestInterceptor(S, newToken),
            !.req[o].cap = hook,
            !.req[o].wait = NoPromise,
            !.req[o].sends = @ + 1]

\* ------------------------------------------------- continuations of a request
\* What the caller awaiting task o's request does once the request's promise
\* settles (ok: fulfilled, data: the token pair of a login / register /
\* refresh response; why: "ok", "network", "status" or "refresh"), up to its
\* next await.
\*   Boot, awaiting fetchUserData : initializeAuth, lines 212-219
\*   login / register             : lines 227-246 / 252-271, fetchUserData 72-78
\*   logout                       : lines 279-291
\*   refresh cycle                : refreshAuthToken, lines 103-113
Finish(S, o, ok) ==
  [S EXCEPT !.req[o] = [IdleReq EXCEPT !.out = IF ok THEN "ok" ELSE "fail",
                                       !.last = S.req[o].last]]

initializeAuthContinue(S, ok) ==
  LET S1 == IF ok
            THEN [S EXCEPT !.user = UserData, !.isAuthenticated = TRUE]
            ELSE clearAuthData(Toast(S, "Failed to fetch user data", Boot))
  IN [S1 EXCEPT !.isLoading = FALSE, !.pc[Boot] = "done"]

\* a login that sets the user and forgets setIsAuthenticated(true)
loginSuccess_NoFlag(S, o, okTitle) ==
  Toast([S EXCEPT !.user = UserData], okTitle, o)

\* login, lines 232-236 (register, lines 257-261)
loginSuccess(S, o, okTitle) ==
  Toast([S EXCEPT !.user = UserData, !.isAuthenticated = TRUE], okTitle, o)

\* a login without its finally block
loginFailure_NoFinally(S, o, failTitle) ==
  [Toast(S, failTitle, o) EXCEPT !.pc[o] = "rejected"]

\* login, lines 237-246 (register, lines 262-271): the catch block notifies
\* and rethrows, the finally block sets isLoading to false
loginFailure(S, o, failTitle) ==
  [Toast(S, failTitle, o) EXCEPT !.isLoading = FALSE, !.pc[o] = "rejected"]

loginContinue(S, o, ok, data, okTitle, failTitle) ==
  IF S.pc[o] = "post"
  THEN IF ok
       THEN LET S1 == storeTokens([S EXCEPT !.issued[o] = data], TokenPair(data))
            IN Send([S1 EXCEPT !.pc[o] = "me"], o, "me", TokenPair(data).accessToken)
       ELSE loginFailure(S, o, failTitle)
  ELSE IF ok
       THEN [loginSuccess(S, o, okTitle)
               EXCEPT !.isLoading = FALSE, !.pc[o] = "resolved"]
       ELSE loginFailure(Toast(S, "Failed to fetch user data", o), o, failTitle)

logoutFinally(S, o) ==
  [clearAuthData(S) EXCEPT !.isLoading = FALSE, !.pc[o] = "resolved"]

\* a logout that clears the session after the remote call instead of in finally
logoutContinue_ClearInTry(S, o, ok) ==
  IF ok
  THEN logoutFinally(Toast(S, "Logged out successfully", o), o)
  ELSE [Toast(S, "Logout failed", o) EXCEPT !.isLoading = FALSE, !.pc[o] = "resolved"]

logoutContinue(S, o, ok) ==
  logoutFinally(Toast(S, IF ok THEN "Logged out successfully" ELSE "Logout failed", o), o)

\* a refreshAuthToken that returns the new access token without storing the pair
refreshAuthTokenContinue_NoStore(S, p, ok, data, why) ==
  IF ok
  THEN [S EXCEPT !.rp[p].st = "resolved", !.rp[p].val = TokenPair(data).accessToken,
                 !.rp[p].resp = why]
  ELSE [clearAuthData(Toast(S, "Session expired", RfOwner(p)))
          EXCEPT !.rp[p].st = "resolved", !.rp[p].val = Null, !.rp[p].resp = why]

\* a refreshAuthToken whose catch block rethrows instead of returning null
refreshAuthTokenContinue_Rethrow(S, p, ok, data, why) ==
  IF ok
  THEN [storeTokens(S, TokenPair(data))
          EXCEPT !.rp[p].st = "resolved", !.rp[p].val = TokenPair(data).accessToken,
                 !.rp[p].resp = why]
  ELSE [clearAuthData(Toast(S, "Session expired", RfOwner(p)))
          EXCEPT !.rp[p].st = "rejected", !.rp[p].resp = why]

\* refreshAuthToken, lines 103-114, once the remote refresh call has settled
refreshAuthTokenContinue(S, p, ok, data, why) ==
  IF ok
  THEN [storeTokens(S, TokenPair(data))
          EXCEPT !.rp[p].st = "resolved", !.rp[p].val = TokenPair(data).accessToken,
                 !.rp[p].resp = why]
  ELSE [clearAuthData(Toast(S, "Session expired", RfOwner(p)))
          EXCEPT !.rp[p].st = "resolved", !.rp[p].val = Null, !.rp[p].resp = why]

Settle(S, o, ok, data, why) ==
  LET S1 == Finish(S, o, ok) IN
  IF o = Boot THEN initializeAuthContinue(S1, ok)
  ELSE IF o \in RfOwners THEN refreshAuthTokenContinue(S1, CycleOf(o), ok, data, why)
  ELSE IF kind[o] = "login"
       THEN loginContinue(S1, o, ok, data, "Welcome back!", "Login failed")
  ELSE IF kind[o] = "register"
       THEN loginContinue(S1, o, ok, data, "Registration successful!", "Registration failed")
  ELSE logoutContinue(S1, o, ok)

\* ------------------------------------------------------------ refreshAuthToken
\* a refreshAuthToken without the check of line 97
NoRefreshToken_Unchecked(S) == FALSE

\* refreshAuthToken, lines 96-97: no refresh token is stored, resolve with null
NoRefreshToken(S) == S.localStorage.refreshToken = Null

FreePromises(S) == {p \in Promises : S.rp[p].st = "unused"}
NewPromise(S) == CHOOSE p \in FreePromises(S) : \A q \in FreePromises(S) : p <= q

\* refreshAuthToken, lines 94-101, when a refresh token is stored: the call
\* of the remote refresh operation.  by: the task on whose behalf it is called,
\* direct: called by initializeAuth and not by the response interceptor.
refreshAuthToken(S, by, direct) ==
  LET p == NewPromise(S)
      S1 == [S EXCEPT !.rp[p] = [st |-> "pending", val |-> Null, by |-> by,
                                 direct |-> direct, resp |-> "none"]]
  IN Send(S1, RfOwner(p), "refresh", S.localStorage.refreshToken)

\* ---------------------------------------------------------- responseInterceptor
\* lines 142-161: the title of the notification of a failure that is propagated
FailureTitle(status) ==
  IF status = Forbidden THEN "Access denied"
  ELSE IF status = NotFound THEN "Not found"
  ELSE IF status = TooMany THEN "Too many requests"
  ELSE "Request failed"

\* a handler that resends whatever the refresh returned
AfterRefresh_NoNullCheck(S, o, newToken) == Resend(S, o, newToken)

\* a handler that does not look at the retried marker
ShouldPropagate_IgnoreRetry(r, status) == status # Unauthorized

\* line 142: the failure is not a 401, or the request has been retried already
ShouldPropagate(r, status) == status # Unauthorized \/ r.retry

\* lines 186-193 (and 170-174): after the refresh outcome is known
AfterRefresh(S, o, newToken) ==
  IF newToken # Null
  THEN Resend(S, o, newToken)
  ELSE Settle(clearAuthData(S), o, FALSE, 0, "refresh")

\* lines 138-195, the rejected handler, up to its first await on a pending
\* promise.  The handler reads isRefreshing and refreshPromise from the closure
\* of the effect run that registered it (req[o].cap).
responseInterceptor(S, o, status) ==
  LET r == S.req[o] IN
  IF ShouldPropagate(r, status)
  THEN Settle(Toast(S, FailureTitle(status), o), o, FALSE, 0,
              IF status = NetErr THEN "network" ELSE "status")
  ELSE LET S1 == [S EXCEPT !.req[o].retry = TRUE] IN
       IF r.cap.isRefreshing /\ r.cap.refreshPromise # NoPromise
       THEN [S1 EXCEPT !.req[o].st = "waitShared", !.req[o].wait = r.cap.refreshPromise]
       ELSE IF NoRefreshToken(S1)
            \* refreshAuthToken resolves with null at once: lines 178-184 and
            \* 190-193 run in the same macrotask
            THEN AfterRefresh([S1 EXCEPT !.isRefreshing = FALSE,
                                         !.refreshPromise = NoPromise,
                                         !.req[o].cycles = @ + 1], o, Null)
            ELSE LET p == NewPromise(S1)
                     S2 == refreshAuthToken([S1 EXCEPT !.isRefreshing = TRUE], o, FALSE)
                 IN [S2 EXCEPT !.refreshPromise = p,
                               !.req[o].st = "waitOwn",
                               !.req[o].wait = p,
                               !.req[o].cycles = @ + 1]

\* Whether the handler can run within the model's bound on promise slots.
CanHandle(o, status) ==
  \/ ShouldPropagate(req[o], status)
  \/ req[o].cap.isRefreshing /\ req[o].cap.refreshPromise # NoPromise
  \/ NoRefreshToken(Cur)
  \/ FreePromises(Cur) # {}

\* ------------------------------------------------------------------- tasks
Active(o) ==
  IF o = Boot THEN pc[Boot] # "done" ELSE pc[o] \in {"post", "me"}

\* A continuation of an await on a settled refresh promise is pending.
Resumable(o) ==
  /\ req[o].st \in {"waitOwn", "waitShared"}
  /\ rp[req[o].wait].st = "resolved"
BootResumable ==
  /\ pc[Boot] = "refresh"
  /\ \E p \in Promises : rp[p].direct /\ rp[p].st = "resolved"
\* Macrotasks run only once the microtask queue is empty.
MacroTask == ~BootResumable /\ \A o \in Owners : ~Resumable(o)

\* The state after the provider's first render and the first run of the
\* interceptor effect; localStorage is what an earlier session left: the pair
\* it stored last, or nothing.
Init ==
  /\ localStorage \in {EmptyStore, TokenPair(OldPair)}
  /\ user = NoUser
  /\ isLoading = TRUE
  /\ isAuthenticated = FALSE
  /\ isRefreshing = FALSE
  /\ refreshPromise = NoPromise
  /\ rendered = [isRefreshing |-> FALSE, refreshPromise |-> NoPromise]
  /\ effectPending = FALSE
  /\ hook = [isRefreshing |-> FALSE, refreshPromise |-> NoPromise]
  /\ req = [o \in Owners |-> IdleReq]
  /\ pc = [o \in {Boot} \cup Ops |-> IF o = Boot THEN "init" ELSE "none"]
  /\ kind = [o \in Ops |-> "none"]
  /\ rp = [p \in Promises |-> UnusedPromise]
  /\ toasts = EmptyBag
  /\ nextTok = OldPair + 1
  /\ solo = [o \in Ops |-> FALSE]
  /\ userAtCall = [o \in Ops |-> NoUser]
  /\ issued = [o \in Ops |-> OldPair]

\* useEffect(..., []), lines 204-222: initializeAuth up to its first await
initializeAuthStart(S) ==
  LET S1 == [S EXCEPT !.isLoading = TRUE] IN
  IF S1.localStorage.accessToken # Null
  THEN Send([S1 EXCEPT !.pc[Boot] = "me"], Boot, "me", S1.localStorage.accessToken)
  ELSE IF NoRefreshToken(S1)
       THEN [S1 EXCEPT !.isLoading = FALSE, !.pc[Boot] = "done"]
       ELSE refreshAuthToken([S1 EXCEPT !.pc[Boot] = "refresh"], Boot, TRUE)

initializeAuth ==
  /\ pc[Boot] = "init"
  /\ Apply(initializeAuthStart(Cur))
  /\ UNCHANGED <<hook, rendered, effectPending, kind, nextTok, solo, userAtCall>>

\* initializeAuth, lines 208-219, once its refreshAuthToken() has settled.
\* initializeAuth reaches the network through refreshAuthToken only when the
\* store holds a refresh token and no access token; the code never leaves the
\* store so (C3), hence this step is no disjunct of Next.
initializeAuthResume ==
  /\ BootResumable
  /\ LET p == CHOOSE q \in Promises : rp[q].direct
         token == rp[p].val
     IN Apply(IF token # Null
              THEN Send([Cur EXCEPT !.pc[Boot] = "me"], Boot, "me", token)
              ELSE [Cur EXCEPT !.isLoading = FALSE, !.pc[Boot] = "done"])
  /\ UNCHANGED <<hook, rendered, effectPending, kind, nextTok, solo, userAtCall>>

\* The call starts with nothing else in flight; calls it overlaps lose `solo`.
Quiet == (\A o \in {Boot} \cup Ops : ~Active(o)) /\ (\A o \in Owners : req[o].st = "idle")
StartSolo(i) == [o \in Ops |-> IF o = i THEN Quiet ELSE solo[o] /\ ~Active(o)]

\* The context hands login, register and logout to every descendant (lines
\* 294-296): a call can be made in any state once the provider is mounted,
\* also while another call, bootstrap or a refresh cycle is in flight.  Calls
\* take the call slots in order.
CanStart(i) ==
  /\ MacroTask
  /\ pc[Boot] # "init"
  /\ kind[i] = "none"
  /\ \A j \in Ops : j < i => kind[j] # "none"

\* login, lines 224-227, up to the await of the remote login call
loginStart(S, i, ep) ==
  Send([S EXCEPT !.isLoading = TRUE, !.pc[i] = "post"], i, ep, Null)

login(i) ==
  /\ CanStart(i)
  /\ kind' = [kind EXCEPT ![i] = "login"]
  /\ Apply(loginStart(Cur, i, "login"))
  /\ solo' = StartSolo(i)
  /\ userAtCall' = [userAtCall EXCEPT ![i] = user]
  /\ UNCHANGED <<hook, rendered, effectPending, nextTok>>

\* register, lines 249-252
register(i) ==
  /\ CanStart(i)
  /\ kind' = [kind EXCEPT ![i] = "register"]
  /\ Apply(loginStart(Cur, i, "register"))
  /\ solo' = StartSolo(i)
  /\ userAtCall' = [userAtCall EXCEPT ![i] = user]
  /\ UNCHANGED <<hook, rendered, effectPending, nextTok>>

\* logout, lines 274-281, up to the await of the remote logout call
logoutStart(S, i) ==
  LET S1 == [S EXCEPT !.isLoading = TRUE] IN
  IF S1.localStorage.accessToken # Null
  THEN Send([S1 EXCEPT !.pc[i] = "post"], i, "logout", Null)
  ELSE logoutFinally(S1, i)

logout(i) ==
  /\ CanStart(i)
  /\ kind' = [kind EXCEPT ![i] = "logout"]
  /\ Apply(logoutStart(Cur, i))
  /\ solo' = StartSolo(i)
  /\ userAtCall' = [userAtCall EXCEPT ![i] = user]
  /\ UNCHANGED <<hook, rendered, effectPending, nextTok>>

\* ------------------------------------------------------------ the transport
IssuesTokens(ep) == ep \in {"login", "register", "refresh"}
\* history: the status of the response task o's request just received
Received(S, o, status) == [S EXCEPT !.req[o].last = {status}]

\* A 2xx response: lines 137 (the fulfilled handler passes it on), then the caller
RespondOk(o) ==
  /\ MacroTask
  /\ req[o].st = "sent"
  /\ IF IssuesTokens(req[o].ep)
     THEN /\ nextTok <= MaxTok
          /\ nextTok' = nextTok + 1
     ELSE nextTok' = nextTok
  /\ Apply(Settle(Received(Cur, o, Ok), o, TRUE, nextTok, "ok"))
  /\ UNCHANGED <<hook, rendered, effectPending, kind, solo, userAtCall>>

\* An error response or no response at all: the rejected handler, lines 138-195
RespondError(o, status) ==
  /\ MacroTask
  /\ req[o].st = "sent"
  /\ CanHandle(o, status)
  /\ Apply(responseInterceptor(Received(Cur, o, status), o, status))
  /\ UNCHANGED <<hook, rendered, effectPending, kind, nextTok, solo, userAtCall>>

\* lines 169-175 and 182-194: the handler resumes with the refresh outcome
responseInterceptorResume(S, o) ==
  LET r == S.req[o]
      newToken == S.rp[r.wait].val
      S1 == IF r.st = "waitOwn"
            THEN [S EXCEPT !.isRefreshing = FALSE, !.refreshPromise = NoPromise]
            ELSE S
  IN AfterRefresh(S1, o, newToken)

Resume(o) ==
  /\ Resumable(o)
  /\ Apply(responseInterceptorResume(Cur, o))
  /\ UNCHANGED <<hook, rendered, effectPending, kind, nextTok, solo, userAtCall>>

\* A render of the provider after setIsRefreshing / setRefreshPromise (lines
\* 63-64): React renders in a task of its own, after the handler that set the
\* state has returned.  The render's effect callback closes over this render's
\* isRefreshing and refreshPromise; the effect is scheduled only if the
\* dependency isRefreshing differs from the previous render's (line 202).  The
\* effect of the previous render has run before a new render starts.
Render ==
  /\ MacroTask
  /\ ~effectPending
  /\ rendered # [isRefreshing |-> isRefreshing, refreshPromise |-> refreshPromise]
  /\ rendered' = [isRefreshing |-> isRefreshing, refreshPromise |-> refreshPromise]
  /\ effectPending' = (rendered.isRefreshing # isRefreshing)
  /\ UNCHANGED <<localStorage, user, isLoading, isAuthenticated, isRefreshing,
                 refreshPromise, hook, req, pc, kind, rp, toasts, nextTok, solo,
                 userAtCall, issued>>

\* useEffect(..., [isRefreshing]), lines 118-202: React runs the effect of the
\* last render in a later task: it ejects the interceptors and registers new
\* ones, closed over the isRefreshing and refreshPromise of that render
InterceptorsEffect ==
  /\ MacroTask
  /\ effectPending
  /\ hook' = rendered
  /\ effectPending' = FALSE
  /\ UNCHANGED <<localStorage, user, isLoading, isAuthenticated, isRefreshing,
                 refreshPromise, rendered, req, pc, kind, rp, toasts, nextTok, solo,
                 userAtCall, issued>>

Next ==
  \/ initializeAuth
  \/ \E i \in Ops : login(i)
  \/ \E i \in Ops : register(i)
  \/ \E i \in Ops : logout(i)
  \/ \E o \in Owners : RespondOk(o)
  \/ \E o \in Owners, status \in Failures : RespondError(o, status)
  \/ \E o \in Owners : Resume(o)
  \/ Render
  \/ InterceptorsEffect

Spec == Init /\ [][Next]_vars

\* ===================================================================== claims
ErrorTitles == {"Failed to fetch user data", "Session expired", "Request failed",
                "Access denied", "Not found", "Too many requests", "Login failed",
                "Registration failed", "Logout failed"}
AllTitles == ErrorTitles \cup {"Welcome back!", "Registration successful!",
                               "Logged out successfully"}
AppOwners == {Boot} \cup Ops
Waiting(o) == req[o].st \in {"waitOwn", "waitShared"}
\* the task o and the refresh cycles its failed requests started
TasksOf(o) == {o} \cup {RfOwner(p) : p \in {q \in Promises : rp[q].st # "unused" /\ rp[q].by = o}}
NoErrorToast(o, bag) ==
  \A title \in ErrorTitles, q \in TasksOf(o) : CopiesIn(<<title, q>>, bag) = 0

\* C1: requests of the application that are pending on a 401 at the same time
\* (a refresh token being stored when each 401 was handled) all await the
\* outcome of one and the same refresh cycle, so that GET /auth/refresh is
\* called once for all of them and all are resent with the same token.
C1_OneRefreshCycleForConcurrent401s ==
  \A o1 \in AppOwners, o2 \in AppOwners :
    (Waiting(o1) /\ Waiting(o2)) => req[o1].wait = req[o2].wait

\* C2: the response to a request whose _retry marker is set (whatever the
\* response is, a second 401 included) starts no refresh cycle and no resend:
\* the request had been sent exactly twice and had started at most one refresh
\* cycle, it now settles, no refreshAuthToken call is made and the in-flight
\* marker is not raised.
C2_RetriedRequestIsNotRetriedAgain ==
  [][\A o \in Owners :
       (req[o].st = "sent" /\ req[o].retry /\ req'[o] # req[o]) =>
         /\ req[o].sends = 2
         /\ req[o].cycles <= 1
         /\ req'[o].out = (IF req'[o].last = {Ok} THEN "ok" ELSE "fail")
         /\ req'[o].st \in {"idle", "sent"}
         /\ req'[o].st = "sent" => (req'[o].sends = 1 /\ ~req'[o].retry /\ req'[o].last = {Ok})
         /\ \A p \in Promises : rp[p].st = "unused" => rp'[p].st = "unused"
         /\ isRefreshing' = isRefreshing]_vars

\* C2 witness: a request that was resent after a successful refresh cycle it
\* started was answered 401 again and has been rejected.
C2_Witness ==
  \E o \in AppOwners, p \in Promises :
    /\ rp[p].by = o /\ rp[p].st = "resolved" /\ rp[p].val # Null
    /\ req[o].st = "idle" /\ req[o].out = "fail" /\ req[o].last = {Unauthorized}

\* C3: localStorage holds a matched pair of access and refresh token or neither.
C3_TokenStoreBothOrNeither ==
  \/ localStorage = EmptyStore
  \/ \E k \in OldPair..MaxTok : localStorage = TokenPair(k)

\* C3 witness: a refresh has written its pair over the one a login had stored.
C3_Witness ==
  \E i \in Ops, p \in Promises :
    /\ issued[i] # OldPair
    /\ rp[p].val # Null
    /\ rp[p].val.n # issued[i]
    /\ localStorage = TokenPair(rp[p].val.n)

\* C4: isAuthenticated is true if and only if user is non-null.
C4_AuthenticatedIffUser == isAuthenticated <=> (user # NoUser)

\* C4 witness: a session that was authenticated by bootstrap has been cleared
\* by a failed refresh cycle.
C4_Witness ==
  /\ pc[Boot] = "done" /\ req[Boot].out = "ok"
  /\ \E p \in Promises : rp[p].st = "resolved" /\ rp[p].val = Null
  /\ ~isAuthenticated /\ user = NoUser

\* C5: when the request of task o waits on the refresh cycle its 401 started and
\* the remote refresh call of that cycle fails with a network error, then once
\* the handler has resumed: user is null, isAuthenticated is false, localStorage
\* is empty, the cycle has emitted exactly one "Session expired" notification,
\* the request has not been resent (it was sent once) and its promise is rejected.
C5_RefreshNetworkFailureClearsSession ==
  [][\A o \in Owners :
       (/\ req[o].st = "waitOwn"
        /\ rp[req[o].wait].st = "resolved"
        /\ rp[req[o].wait].resp = "network"
        /\ req'[o] # req[o]) =>
         /\ user' = NoUser
         /\ ~isAuthenticated'
         /\ localStorage' = EmptyStore
         /\ CopiesIn(<<"Session expired", RfOwner(req[o].wait)>>, toasts') = 1
         /\ req[o].sends = 1
         /\ req'[o].st = "idle"
         /\ req'[o].out = "fail"]_vars

\* C5 witness: a login's request got 401, the refresh call failed with a
\* network error, and the login has been rejected.
C5_Witness ==
  \E i \in Ops, p \in Promises :
    /\ kind[i] = "login" /\ pc[i] = "rejected"
    /\ rp[p].by = i /\ rp[p].resp = "network"
    /\ localStorage = EmptyStore

\* C6: every GET /auth/refresh in flight carries a refresh token as its bearer
\* credential.
C6_RefreshCallCarriesRefreshToken ==
  \A o \in RfOwners : req[o].st = "sent" => req[o].bearer.t = "refresh"

\* C7: (a) when the refresh cycle started by the 401 of task o's request has
\* resolved with a new access token, the handler resends the request, for the
\* first time, with that token as bearer, and localStorage holds the pair of
\* that token; (b) when the resent request is then answered with success, it
\* has been sent exactly twice, the caller's promise is fulfilled and neither
\* the task nor a refresh cycle it started has emitted an error notification.
C7_RefreshThenResendSucceeds ==
  [][\A o \in Owners :
       /\ (/\ req[o].st = "waitOwn"
           /\ rp[req[o].wait].st = "resolved"
           /\ rp[req[o].wait].val # Null
           /\ req'[o] # req[o]) =>
            /\ req'[o].st = "sent"
            /\ req'[o].sends = 2
            /\ req'[o].bearer = rp[req[o].wait].val
            /\ localStorage' = TokenPair(rp[req[o].wait].val.n)
       /\ (/\ req[o].st = "sent" /\ req[o].retry /\ req[o].cycles = 1
           /\ req'[o] # req[o]
           /\ req'[o].last = {Ok}) =>
            /\ req[o].sends = 2
            /\ req'[o].out = "ok"
            /\ o \in AppOwners => NoErrorToast(o, toasts')]_vars

\* C7 witness: bootstrap's identity fetch got 401, the refresh cycle it started
\* succeeded, the fetch was resent and succeeded: the session is authenticated.
C7_Witness ==
  /\ pc[Boot] = "done" /\ req[Boot].out = "ok" /\ isAuthenticated
  /\ \E p \in Promises : rp[p].by = Boot /\ rp[p].st = "resolved" /\ rp[p].val # Null
                         /\ localStorage = TokenPair(rp[p].val.n)

\* C8: bootstrap started with an empty localStorage ends at once with user null,
\* isAuthenticated false and isLoading false, and no request is handed to the
\* transport: no refreshAuthToken call reaches the network, no identity fetch.
C8_BootstrapEmptyStore ==
  [][(pc[Boot] = "init" /\ localStorage = EmptyStore /\ pc'[Boot] # "init") =>
       /\ pc'[Boot] = "done"
       /\ user' = NoUser /\ ~isAuthenticated' /\ ~isLoading'
       /\ \A o \in Owners : req'[o].st = "idle" /\ req'[o].sends = 0
       /\ \A p \in Promises : rp'[p].st = "unused"
       /\ localStorage' = EmptyStore]_vars

\* C8 witness: bootstrap has ended over an empty store before anything else ran.
C8_Witness ==
  /\ pc[Boot] = "done" /\ localStorage = EmptyStore /\ ~isLoading
  /\ req[Boot].out = "none"
  /\ \A i \in Ops : kind[i] = "none"

\* C10: a logout call always ends resolved, never rejected, whether it made no
\* remote call, or the remote call succeeded or failed; when it ends localStorage
\* is empty, user is null, isAuthenticated is false and isLoading is false.
C10_LogoutAlwaysClears ==
  [][\A i \in Ops :
       (kind'[i] = "logout" /\ pc[i] \in {"none", "post"} /\ pc'[i] \notin {"none", "post"}) =>
         /\ pc'[i] = "resolved"
         /\ localStorage' = EmptyStore
         /\ user' = NoUser
         /\ ~isAuthenticated'
         /\ ~isLoading']_vars

\* C10 witness: a logout whose remote call failed has resolved while the
\* session was authenticated before it.
C10_Witness ==
  \E i \in Ops :
    /\ kind[i] = "logout" /\ pc[i] = "resolved" /\ req[i].out = "fail"
    /\ pc[Boot] = "done" /\ req[Boot].out = "ok"
    /\ localStorage = EmptyStore /\ ~isAuthenticated

\* the task at the root of a chain of refresh cycles: a cycle belongs to the
\* task whose failed request started it, directly or through a refresh call
RECURSIVE RootOf(_)
RootOf(o) == IF o \in RfOwners THEN RootOf(rp[CycleOf(o)].by) ELSE o
\* the notifications emitted on behalf of the call o, in the bag
NotificationsFor(o, bag) ==
  LET pairs == {e \in BagToSet(bag) : e[1] \in ErrorTitles /\ RootOf(e[2]) = o}
      RECURSIVE Sum(_)
      Sum(P) == IF P = {} THEN 0
                ELSE LET e == CHOOSE x \in P : TRUE
                     IN CopiesIn(e, bag) + Sum(P \ {e})
  IN Sum(pairs)

\* C11: a call that has ended in a rejected promise has emitted exactly one
\* failure notification, counting those of the response handler, of
\* fetchUserData, of refreshAuthToken and of the call's own catch block.
C11_RejectionEmitsExactlyOneNotification ==
  \A i \in Ops : pc[i] = "rejected" => NotificationsFor(i, toasts) = 1

\* C12: refreshAuthToken never rejects.  When its remote call settles, with
\* any outcome, the promise it returned resolves: with the access token of
\* the pair just stored on success, with null on every failure; a settled
\* promise keeps its value.  When no refresh token is stored it returns null
\* without a remote call, and the request that asked for it is rejected.
C12_RefreshNeverRejects ==
  [][/\ \A p \in Promises :
          /\ rp'[p].st \in {"unused", "pending", "resolved"}
          /\ rp[p].st = "resolved" => rp'[p] = rp[p]
          /\ (rp[p].st = "pending" /\ req[RfOwner(p)].st # "idle"
                /\ req'[RfOwner(p)].st = "idle") =>
               /\ rp'[p].st = "resolved"
               /\ rp'[p].val = (IF req'[RfOwner(p)].out = "ok"
                                THEN localStorage'.accessToken ELSE Null)
               /\ req'[RfOwner(p)].out = "ok" => rp'[p].val # Null
     /\ \A o \in Owners :
          (/\ req[o].st = "sent" /\ ~req[o].retry /\ ~req[o].cap.isRefreshing
           /\ localStorage.refreshToken = Null
           /\ req'[o].last = {Unauthorized} /\ req'[o].sends = req[o].sends
           /\ req'[o] # req[o]) =>
            (rp' = rp /\ req'[o].st = "idle" /\ req'[o].out = "fail")]_vars

\* C12 witness: a refresh call was answered 401 and its promise has resolved
\* with null.
C12_Witness ==
  \E p \in Promises :
    /\ rp[p].st = "resolved" /\ rp[p].val = Null
    /\ req[RfOwner(p)].last = {Unauthorized}

\* C13: the remote call of a refresh cycle is made once and, when it is
\* answered 401, settles the cycle with null: the failed refresh call starts
\* no refresh cycle of its own and never waits on the outcome of a cycle.
C13_FailedRefreshCallIsNotRecovered ==
  \A p \in Promises :
    /\ ~Waiting(RfOwner(p))
    /\ req[RfOwner(p)].sends <= 1
    /\ \A q \in Promises : rp[q].st # "unused" => rp[q].by # RfOwner(p)

\* C14: bootstrap always terminates, given that every request made receives a
\* response.  Stated on states: as long as bootstrap has not ended, a request
\* is awaiting its response or a continuation is pending, so that a response
\* that has to come keeps it moving; a state without either is one bootstrap
\* never leaves.
C14_BootstrapTerminates ==
  \/ pc[Boot] \in {"init", "done"}
  \/ BootResumable
  \/ \E o \in Owners : req[o].st = "sent" \/ Resumable(o)

\* C15: once a refresh cycle has resolved and the handler that started it has
\* run on, the in-flight marker is false and the shared outcome is empty; a
\* 401 handled from then on starts a refresh cycle of its own: no request
\* begins to wait on a promise that has resolved already.
C15_SettledCycleIsNotReused ==
  [][\A o \in Owners :
       /\ (req[o].st = "waitOwn" /\ req'[o].st # "waitOwn") =>
            (~isRefreshing' /\ refreshPromise' = NoPromise)
       /\ (req[o].st = "sent" /\ req'[o].st = "waitShared") =>
            rp[req'[o].wait].st = "pending"]_vars

\* C16: a successful refresh has written the new token pair to localStorage
\* when its promise resolves, before any handler waiting on it runs on; every
\* handler that runs on with the outcome of a successful cycle resends its
\* request with an access token that is the cycle's new one (or one stored
\* after it), never an older one, and the handler that started the cycle
\* resends with exactly the cycle's token.
C16_ResendCarriesNewToken ==
  [][/\ \A p \in Promises :
          (rp[p].st = "pending" /\ rp'[p].st = "resolved" /\ rp'[p].val # Null) =>
            /\ localStorage' = TokenPair(rp'[p].val.n)
            /\ \A o \in Owners : (Waiting(o) /\ req[o].wait = p) => req'[o] = req[o]
     /\ \A o \in Owners :
          (Resumable(o) /\ rp[req[o].wait].val # Null /\ req'[o] # req[o]) =>
            /\ req'[o].st = "sent"
            /\ req'[o].sends = req[o].sends + 1
            /\ req'[o].bearer.t = "access"
            /\ req'[o].bearer.n >= rp[req[o].wait].val.n
            /\ req[o].st = "waitOwn" => req'[o].bearer = rp[req[o].wait].val]_vars

\* C16 witness: a request that waited on a cycle another task had started has
\* been resent with that cycle's new access token.
C16_Witness ==
  \E o \in AppOwners, p \in Promises :
    /\ rp[p].st = "resolved" /\ rp[p].val # Null /\ rp[p].by # o
    /\ req[o].st = "sent" /\ req[o].sends = 2 /\ req[o].cycles = 0
    /\ req[o].bearer = rp[p].val
    /\ localStorage.accessToken = rp[p].val

\* C17 as stated: whenever a login or register call rejects, at whichever
\* step, user is null, isAuthenticated is false and isLoading is false.
C17_RejectedLoginIsUnauthenticated ==
  [][\A i \in Ops :
       (pc[i] \in {"post", "me"} /\ pc'[i] = "rejected") =>
         (user' = NoUser /\ ~isAuthenticated' /\ ~isLoading')]_vars

\* C17 amended: whenever a login or register call rejects, isLoading is false;
\* the session is Unauthenticated afterwards when it was Unauthenticated as
\* the call was made and no other task was in flight during the call.
C17_RejectedLoginLeavesSessionAsItWas ==
  [][\A i \in Ops :
       (pc[i] \in {"post", "me"} /\ pc'[i] = "rejected") =>
         /\ kind[i] \in {"login", "register"}
         /\ ~isLoading'
         /\ (solo[i] /\ userAtCall[i] = NoUser) => (user' = NoUser /\ ~isAuthenticated')]_vars

\* C17 witness: a login made in the Unauthenticated state, alone, whose
\* identity fetch failed after the remote login call had succeeded.
C17_Witness ==
  \E i \in Ops :
    /\ kind[i] = "login" /\ pc[i] = "rejected" /\ solo[i] /\ userAtCall[i] = NoUser
    /\ issued[i] # OldPair
    /\ user = NoUser /\ ~isAuthenticated /\ ~isLoading

\* C18: whenever isAuthenticated is true, localStorage holds a token pair.
C18_AuthenticatedHasTokens ==
  isAuthenticated => (localStorage.accessToken # Null /\ localStorage.refreshToken # Null)

\* C19: a login or register call that has rejected has left no tokens of
\* that attempt in localStorage: the pair its remote call returned is not
\* the stored one.
C19_RejectedLoginLeavesNoTokens ==
  \A i \in Ops :
    (pc[i] = "rejected" /\ issued[i] # OldPair) => localStorage # TokenPair(issued[i])

\* C20: once a logout call has settled, localStorage stays empty for as long
\* as no login or register call is made after it.
C20_StoreStaysEmptyAfterLogout ==
  \A i \in Ops :
    (/\ kind[i] = "logout" /\ pc[i] = "resolved"
     /\ \A j \in Ops : j > i => kind[j] \notin {"login", "register"}) =>
      localStorage = EmptyStore

\* C9 as stated: every login whose remote login call returned a token pair and
\* whose identity fetch then succeeded ends with user set to the fetched
\* identity, isAuthenticated true, localStorage equal to the returned pair,
\* isLoading false, and exactly one notification, "Welcome back!".
C9_LoginSuccessKeepsReturnedPair ==
  [][\A i \in Ops :
       (kind[i] = "login" /\ pc[i] = "me" /\ pc'[i] = "resolved") =>
         /\ user' = UserData
         /\ isAuthenticated'
         /\ localStorage' = TokenPair(issued[i])
         /\ ~isLoading'
         /\ NotificationsFor(i, toasts') = 0
         /\ \A title \in AllTitles :
              CopiesIn(<<title, i>>, toasts') = (IF title = "Welcome back!" THEN 1 ELSE 0)]_vars

\* C9 amended: every such login ends with user set to the fetched identity,
\* isAuthenticated true, isLoading false, and exactly one notification,
\* "Welcome back!"; localStorage equals the returned pair when the identity
\* fetch was answered with success at its first attempt and no other task was
\* in flight during the login.
C9_LoginSuccess ==
  [][\A i \in Ops :
       (kind[i] = "login" /\ pc[i] = "me" /\ pc'[i] = "resolved") =>
         /\ user' = UserData
         /\ isAuthenticated'
         /\ ~isLoading'
         /\ NotificationsFor(i, toasts') = 0
         /\ \A title \in AllTitles :
              CopiesIn(<<title, i>>, toasts') = (IF title = "Welcome back!" THEN 1 ELSE 0)
         /\ (solo[i] /\ ~req[i].retry) => localStorage' = TokenPair(issued[i])]_vars

\* C9 witness: a login that ran alone and whose identity fetch succeeded at
\* its first attempt has resolved.
C9_Witness ==
  \E i \in Ops :
    /\ kind[i] = "login" /\ pc[i] = "resolved" /\ solo[i]
    /\ issued[i] # OldPair /\ localStorage = TokenPair(issued[i])
    /\ isAuthenticated /\ ~isLoading
    /\ CopiesIn(<<"Welcome back!", i>>, toasts) = 1

====
